---- MODULE Spec2Model ----
(***************************************************************************)
(* A model of App.py: the Substack fetcher (extract_slug,                  *)
(* get_substack_api_data), the cover renderer (generate_cover), the EPUB   *)
(* packager (create_epub) and the Streamlit script that sequences them     *)
(* through st.session_state.                                               *)
(*                                                                         *)
(* Conventions.                                                            *)
(*   - A Python str is a sequence of fragments.  A URL is a sequence of    *)
(*     single characters, so that split() and "in" work on characters.     *)
(*     Every other text is a sequence of string fragments, one per literal *)
(*     or interpolated piece of the f-string that builds it.               *)
(*   - None / an absent dict key is the empty tuple <<>>, a present value  *)
(*     v is <<v>> (an option).  A JSON object is a record of options.      *)
(***************************************************************************)
EXTENDS Integers, Sequences, FiniteSets, TLC

VARIABLES
    \* one call of get_substack_api_data
    f_url, f_resp, f_cresp, f_ret,
    \* one call of generate_cover
    g_style, g_data, g_ret,
    \* one call of create_epub
    e_data, e_cover, e_ret,
    \* the Streamlit session: the URL widget, st.session_state, what the last
    \* script run executed and showed, and the last record a fetch returned
    url_input, session_state, run, last_fetched

vars == <<f_url, f_resp, f_cresp, f_ret, g_style, g_data, g_ret,
          e_data, e_cover, e_ret, url_input, session_state, run, last_fetched>>

fetchVars == <<f_url, f_resp, f_cresp, f_ret>>
coverVars == <<g_style, g_data, g_ret>>
epubVars  == <<e_data, e_cover, e_ret>>
uiVars    == <<url_input, session_state, run, last_fetched>>

None == <<>>
Some(v) == <<v>>

(***************************************************************************)
(* Bounds                                                                  *)
(***************************************************************************)
MaxUrlLen == 7
MaxComments == 2

(***************************************************************************)
(* Python str helpers                                                      *)
(***************************************************************************)
\* s[i:i+len(sep)] == sep
MatchAt(s, sep, i) ==
    /\ i + Len(sep) - 1 <= Len(s)
    /\ SubSeq(s, i, i + Len(sep) - 1) = sep

\* sep in s
Contains(s, sep) == \E i \in 1..Len(s) : MatchAt(s, sep, i)

\* s.split(sep): left to right, occurrences do not overlap
RECURSIVE SplitFrom(_, _, _, _)
SplitFrom(s, sep, start, i) ==
    IF i + Len(sep) - 1 > Len(s)
    THEN << SubSeq(s, start, Len(s)) >>
    ELSE IF MatchAt(s, sep, i)
         THEN << SubSeq(s, start, i - 1) >>
                  \o SplitFrom(s, sep, i + Len(sep), i + Len(sep))
         ELSE SplitFrom(s, sep, start, i + 1)

split(s, sep) == SplitFrom(s, sep, 1, 1)

\* the truth value of an optional str: None and "" are false
Truthy(opt) == opt # None /\ opt[1] # <<>>

\* dict.get(key, default) on a record of options
Get(opt, default) == IF opt = None THEN default ELSE opt[1]

(***************************************************************************)
(* Fetcher                                                                 *)
(***************************************************************************)
MARKER == <<"/", "p", "/">>
SLASH == <<"/">>
QUERY == <<"?">>
SCHEME_SEP == <<"/", "/">>

\* extract_slug testing for "p/" instead of "/p/"
extract_slug_LooseMarker(url) ==
    IF Contains(url, <<"p", "/">>)
    THEN Some(split(split(split(url, <<"p", "/">>)[2], SLASH)[1], QUERY)[1])
    ELSE None

\* extract_slug(url): the slug, or None
extract_slug(url) ==
    IF Contains(url, MARKER)
    THEN Some(split(split(split(url, MARKER)[2], SLASH)[1], QUERY)[1])
    ELSE None

\* what get_substack_api_data returns, with the HTTP requests it issued
Ret(data, error, requests) ==
    [data |-> data, error |-> error, requests |-> requests]

\* The messages of the exceptions the try block of lines 42-81 can raise
\* (requests.get, resp.json(), [0] on an empty list, fromisoformat) are
\* str(e) of library exceptions, all non-empty texts.
ERR_INVALID_URL == <<"Invalid Substack URL. Must contain '/p/'.">>
ERR_DOMAIN == <<"Could not parse domain.">>
ERR_INDEX == <<"list index out of range">>
ERR_JSON == <<"Expecting value: line 1 column 1 (char 0)">>
ERR_CONNECTION == <<"HTTPSConnectionPool: Max retries exceeded">>
ErrApi(status_code) == <<"API Error: ", ToString(status_code)>>
ErrIsoformat(date_iso) == <<"Invalid isoformat string: ", date_iso>>

\* datetime.fromisoformat(...).strftime("%B %d, %Y") on the dates the model
\* draws; None where fromisoformat raises ValueError
FormatDate(date_iso) ==
    CASE date_iso = "2024-01-01T00:00:00Z" -> Some("January 01, 2024")
      [] date_iso = "2023-12-25T10:30:00+00:00" -> Some("December 25, 2023")
      [] OTHER -> None

\* f"<b>{c_user}:</b> {c_body}"
FormatComment(c_user, c_body) == <<"<b>", c_user, ":</b> ", c_body>>

\* the loop without the `if c_body` test
RECURSIVE CollectComments_KeepEmpty(_)
CollectComments_KeepEmpty(cs) ==
    IF cs = <<>> THEN <<>>
    ELSE << FormatComment(Get(Head(cs).name, "Anonymous"), Get(Head(cs).body, "")) >>
             \o CollectComments_KeepEmpty(Tail(cs))

\* the loop over c_data.get("comments", [])
RECURSIVE CollectComments(_)
CollectComments(cs) ==
    IF cs = <<>> THEN <<>>
    ELSE LET c == Head(cs)
             c_body == Get(c.body, "")
             c_user == Get(c.name, "Anonymous")
         IN (IF c_body # "" THEN << FormatComment(c_user, c_body) >> ELSE <<>>)
                \o CollectComments(Tail(cs))

Record(title, author, date_str, body_html, comments, url, domain) ==
    [title |-> title, author |-> author, date |-> date_str, body |-> body_html,
     comments |-> comments, url |-> url, domain |-> domain]

\* the comment request treated like the metadata request: non-200 is an error
FetchComments_FailOnStatus(url, domain, data, author, date_str, c_resp, requests) ==
    LET post_id == Get(data.id, 0)
        title == Get(data.title, "Untitled")
        body_html == Get(data.body_html, "")
        comment_url == <<"https://", domain, "/api/v1/posts/", ToString(post_id),
                         "/comments?sort=newest">>
    IN IF post_id = 0
       THEN Ret(Some(Record(title, author, date_str, body_html, <<>>, url, domain)),
                None, requests)
       ELSE LET reqs == Append(requests, comment_url) IN
            IF c_resp.raised THEN Ret(None, Some(ERR_CONNECTION), reqs)
            ELSE IF c_resp.status_code # 200
            THEN Ret(None, Some(ErrApi(c_resp.status_code)), reqs)
            ELSE IF c_resp.json = None THEN Ret(None, Some(ERR_JSON), reqs)
            ELSE Ret(Some(Record(title, author, date_str, body_html,
                                 CollectComments(Get(c_resp.json[1].comments, <<>>)),
                                 url, domain)),
                     None, reqs)

\* lines 55-81: the comment request and the returned record
FetchComments(url, domain, data, author, date_str, c_resp, requests) ==
    LET post_id == Get(data.id, 0)
        title == Get(data.title, "Untitled")
        body_html == Get(data.body_html, "")
        comment_url == <<"https://", domain, "/api/v1/posts/", ToString(post_id),
                         "/comments?sort=newest">>
    IN IF post_id = 0
       THEN Ret(Some(Record(title, author, date_str, body_html, <<>>, url, domain)),
                None, requests)
       ELSE LET reqs == Append(requests, comment_url) IN
            IF c_resp.raised THEN Ret(None, Some(ERR_CONNECTION), reqs)
            ELSE IF c_resp.status_code # 200
            THEN Ret(Some(Record(title, author, date_str, body_html, <<>>, url, domain)),
                     None, reqs)
            ELSE IF c_resp.json = None THEN Ret(None, Some(ERR_JSON), reqs)
            ELSE Ret(Some(Record(title, author, date_str, body_html,
                                 CollectComments(Get(c_resp.json[1].comments, <<>>)),
                                 url, domain)),
                     None, reqs)

\* lines 47-53: the fields of the metadata document
ParseMetadata(url, domain, data, c_resp, requests) ==
    LET bylines == Get(data.publishedBylines, << [name |-> None] >>)
        date_iso == Get(data.post_date, "")
    IN IF bylines = <<>> THEN Ret(None, Some(ERR_INDEX), requests)
       ELSE LET author == Get(bylines[1].name, "Unknown Author") IN
            IF date_iso = ""
            THEN FetchComments(url, domain, data, author, "Undated", c_resp, requests)
            ELSE IF FormatDate(date_iso) = None
            THEN Ret(None, Some(ErrIsoformat(date_iso)), requests)
            ELSE FetchComments(url, domain, data, author, FormatDate(date_iso)[1],
                               c_resp, requests)

\* get_substack_api_data rejecting only server errors (status_code >= 500)
get_substack_api_data_Only5xx(url, resp, c_resp) ==
    LET slug == extract_slug(url) IN
    IF ~Truthy(slug) THEN Ret(None, Some(ERR_INVALID_URL), <<>>)
    ELSE LET parts == split(url, SCHEME_SEP) IN
         IF Len(parts) < 2 THEN Ret(None, Some(ERR_DOMAIN), <<>>)
         ELSE LET domain == split(parts[2], SLASH)[1]
                  api_url == <<"https://", domain, "/api/v1/posts/", slug[1]>>
                  requests == << api_url >>
              IN IF resp.raised THEN Ret(None, Some(ERR_CONNECTION), requests)
                 ELSE IF resp.status_code >= 500
                 THEN Ret(None, Some(ErrApi(resp.status_code)), requests)
                 ELSE IF resp.json = None THEN Ret(None, Some(ERR_JSON), requests)
                 ELSE ParseMetadata(url, domain, resp.json[1], c_resp, requests)

\* get_substack_api_data(url), given the responses the two endpoints would send
get_substack_api_data(url, resp, c_resp) ==
    LET slug == extract_slug(url) IN
    IF ~Truthy(slug) THEN Ret(None, Some(ERR_INVALID_URL), <<>>)
    ELSE LET parts == split(url, SCHEME_SEP) IN
         IF Len(parts) < 2 THEN Ret(None, Some(ERR_DOMAIN), <<>>)
         ELSE LET domain == split(parts[2], SLASH)[1]
                  api_url == <<"https://", domain, "/api/v1/posts/", slug[1]>>
                  requests == << api_url >>
              IN IF resp.raised THEN Ret(None, Some(ERR_CONNECTION), requests)
                 ELSE IF resp.status_code # 200
                 THEN Ret(None, Some(ErrApi(resp.status_code)), requests)
                 ELSE IF resp.json = None THEN Ret(None, Some(ERR_JSON), requests)
                 ELSE ParseMetadata(url, domain, resp.json[1], c_resp, requests)

(***************************************************************************)
(* Cover renderer                                                          *)
(***************************************************************************)
width == 600
height == 900

STYLES == {"Classic Typography", "Modern Dark", "Minimalist White"}

\* PIL colour names, as RGB
Ink(name) ==
    CASE name = "black" -> <<0, 0, 0>>
      [] name = "white" -> <<255, 255, 255>>
      [] name = "gray" -> <<128, 128, 128>>
      [] name = "lightgray" -> <<211, 211, 211>>
      [] name = "red" -> <<255, 0, 0>>

\* str.upper() on the author names the model draws
Upper(s) ==
    CASE s = "Ann" -> "ANN"
      [] s = "Bob" -> "BOB"
      [] s = "Unknown Author" -> "UNKNOWN AUTHOR"
      [] OTHER -> s

\* Image.new('RGB', (width, height), color)
NewImage(color) == [size |-> <<width, height>>, background |-> color, drawn |-> <<>>]

\* d.text / d.rectangle / d.line: one more shape on the image
Draw(img, shape, xy, text, ink) ==
    [img EXCEPT !.drawn = Append(@, [shape |-> shape, xy |-> xy, text |-> text, ink |-> ink])]

Text(img, xy, text, fill) == Draw(img, "text", xy, text, Ink(fill))

\* generate_cover(style, data): the encoded image
generate_cover(style, data) ==
    IF style = "Classic Typography"
    THEN LET i0 == NewImage(<<248, 241, 229>>)
             i1 == Draw(i0, "rectangle-outline-3", <<20, 20, width - 20, height - 20>>,
                        <<>>, <<0, 0, 0>>)
             i2 == Text(i1, <<50, 200>>, <<data.title>>, "black")
             i3 == Text(i2, <<50, 400>>, <<data.author>>, "black")
             i4 == Text(i3, <<50, 450>>, <<data.date>>, "gray")
         IN Text(i4, <<50, height - 100>>, <<"SUBSTACK ARCHIVE">>, "gray")
    ELSE IF style = "Modern Dark"
    THEN LET i0 == NewImage(<<20, 20, 20>>)
             i1 == Draw(i0, "rectangle-fill", <<0, 150, 20, 150 + 200>>, <<>>, <<255, 87, 34>>)
             i2 == Text(i1, <<50, 150>>, <<data.title>>, "white")
             i3 == Text(i2, <<50, 500>>, <<"Written by ", data.author>>, "lightgray")
         IN Text(i3, <<50, 530>>, <<data.date>>, "gray")
    ELSE IF style = "Minimalist White"
    THEN LET i0 == NewImage(<<255, 255, 255>>)
             i1 == Text(i0, <<50, 50>>, <<"ARTICLE">>, "red")
             i2 == Text(i1, <<50, 100>>, <<data.title>>, "black")
             i3 == Draw(i2, "line-2", <<50, 300, 550, 300>>, <<>>, Ink("black"))
             i4 == Text(i3, <<50, 320>>, <<Upper(data.author)>>, "black")
         IN Text(i4, <<50, height - 50>>, data.domain, "gray")
    ELSE NewImage(<<255, 255, 255>>)

(***************************************************************************)
(* Packager                                                                *)
(***************************************************************************)
COMMENTS_HEADER == "<hr/><h1>Comments</h1>"
DIV_OPEN == "<div style='margin-bottom:15px; border-left:2px solid #ccc; padding-left:10px;'>"
DIV_CLOSE == "</div>"

\* lines 161-167
IntroHtml(data) ==
    <<"<h1>", data.title, "</h1><h3>", data.author, "</h3><p><i>", data.date,
      "</i></p><p>Source: <a href=\"">> \o data.url \o <<"\">">> \o data.url
      \o <<"</a></p><hr/>">>

\* the loop of lines 175-176
RECURSIVE CommentBlocks(_)
CommentBlocks(comments) ==
    IF comments = <<>> THEN <<>>
    ELSE <<DIV_OPEN>> \o Head(comments) \o <<DIV_CLOSE>> \o CommentBlocks(Tail(comments))

\* the comments heading appended without the `if data['comments']` test
FinalHtml_AlwaysHeading(data) ==
    IntroHtml(data) \o <<data.body>> \o <<COMMENTS_HEADER>> \o CommentBlocks(data.comments)

\* lines 170-176
FinalHtml(data) ==
    IntroHtml(data) \o <<data.body>>
        \o (IF data.comments # <<>>
            THEN <<COMMENTS_HEADER>> \o CommentBlocks(data.comments)
            ELSE <<>>)

\* create_epub(data, cover_bytes): the book written to the buffer
create_epub(data, cover_bytes) ==
    LET c1 == [kind |-> "EpubHtml", title |-> "Article", file_name |-> "article.xhtml",
               content |-> FinalHtml(data)]
    IN [identifier |-> data.url,
        title |-> data.title,
        language |-> "en",
        authors |-> <<data.author>>,
        covers |-> << [file_name |-> "cover.jpg", content |-> cover_bytes] >>,
        items |-> << c1,
                     [kind |-> "EpubNcx", title |-> "", file_name |-> "toc.ncx", content |-> <<>>],
                     [kind |-> "EpubNav", title |-> "", file_name |-> "nav.xhtml", content |-> <<>>] >>,
        toc |-> << c1.file_name >>,
        spine |-> << "nav", c1.file_name >>]

(***************************************************************************)
(* Streamlit script (lines 196-251): one run of the script, top to bottom  *)
(***************************************************************************)
\* what a script run executed and put on the page
Page(fetch_button, error, success) ==
    [fetch_button |-> fetch_button, error |-> error, success |-> success,
     render_calls |-> <<>>, covers |-> <<>>, select_buttons |-> FALSE,
     package_calls |-> <<>>, epub_file |-> None, download_button |-> FALSE,
     crashed |-> FALSE]

\* a script run in progress: the session, the page so far, and what the
\* fetch of this run returned (None when the run made no fetch)
Running(session, page, fetched) == [session |-> session, page |-> page, fetched |-> fetched]

\* the fetch result stored without looking at `error`
StoreFetched_Unchecked(session, r) ==
    Running([session EXCEPT !.data = Some(r.data)],
            Page(TRUE, r.error, ~Truthy(r.error)), Some(r))

\* the fetch result stored only when the session has no 'data' yet
StoreFetched_FirstOnly(session, r) ==
    IF Truthy(r.error)
    THEN Running(session, Page(TRUE, r.error, FALSE), Some(r))
    ELSE Running([session EXCEPT !.data = IF @ = None THEN Some(r.data) ELSE @],
                 Page(TRUE, None, TRUE), Some(r))

\* lines 203-207: `data, error` as returned by the fetch
StoreFetched(session, r) ==
    IF Truthy(r.error)
    THEN Running(session, Page(TRUE, r.error, FALSE), Some(r))
    ELSE Running([session EXCEPT !.data = Some(r.data)], Page(TRUE, None, TRUE), Some(r))

\* lines 198-207: the fetch button.  `clicked` is the button whose click
\* started this run ("" when the run was started by the text input).
FetchStep(url, session, clicked, resp, c_resp) ==
    IF url # <<>> /\ clicked = "Fetch Article"
    THEN StoreFetched(session, get_substack_api_data(url, resp, c_resp))
    ELSE Running(session, Page(url # <<>>, None, FALSE), None)

COVER_BUTTONS == <<"Select Classic", "Select Dark", "Select Minimal">>
COVER_STYLES == <<"Classic Typography", "Modern Dark", "Minimalist White">>

\* lines 218-237: the three previews, and the selection made by `clicked`
ShowCovers(r, data, cov, clicked) ==
    [r EXCEPT
        !.page.render_calls = [k \in 1..3 |-> [style |-> COVER_STYLES[k], data |-> data]],
        !.page.covers = cov,
        !.page.select_buttons = TRUE,
        !.session.selected_cover =
            IF \E k \in 1..3 : clicked = COVER_BUTTONS[k]
            THEN Some(cov[CHOOSE k \in 1..3 : clicked = COVER_BUTTONS[k]])
            ELSE @]

\* lines 209-237: the 'data' branch.  data['title'] on a data of None raises
\* TypeError in the first generate_cover call, which ends the run.
CoverStep(r, clicked) ==
    IF r.session.data = None THEN r
    ELSE IF r.session.data[1] = None
    THEN [r EXCEPT !.page.render_calls = << [style |-> COVER_STYLES[1], data |-> None] >>,
                   !.page.crashed = TRUE]
    ELSE ShowCovers(r, r.session.data[1],
                    [k \in 1..3 |-> generate_cover(COVER_STYLES[k], r.session.data[1][1])],
                    clicked)

\* lines 239-251: the download section, nested in the 'data' branch
DownloadStep(r) ==
    IF r.session.data = None \/ r.page.crashed \/ r.session.selected_cover = None THEN r
    ELSE [r EXCEPT
            !.page.package_calls = << [data |-> r.session.data[1],
                                       cover |-> r.session.selected_cover[1]] >>,
            !.page.epub_file = Some(create_epub(r.session.data[1][1], r.session.selected_cover[1])),
            !.page.download_button = TRUE]

\* the whole script
ScriptRun(url, session, clicked, resp, c_resp) ==
    DownloadStep(CoverStep(FetchStep(url, session, clicked, resp, c_resp), clicked))

(***************************************************************************)
(* Inputs                                                                  *)
(***************************************************************************)
UrlChars == {"/", "p", "?", "x"}
Urls == UNION { [1..n -> UrlChars] : n \in 0..MaxUrlLen }

URL_X == <<"h", ":", "/", "/", "x", "/", "p", "/", "a">>
URL_Y == <<"h", ":", "/", "/", "y", "/", "p", "/", "b", "?", "r">>
URL_NO_MARKER == <<"h", ":", "/", "/", "x", "/", "a">>

Response(raised, status_code, json) ==
    [raised |-> raised, status_code |-> status_code, json |-> json]

BylineLists ==
    { <<>>, << [name |-> None] >>, << [name |-> Some("Ann")] >>,
      << [name |-> Some("Ann")], [name |-> Some("Bob")] >> }

MetaDocs ==
    [id : {None, Some(0), Some(7)},
     title : {None, Some("Hello")},
     publishedBylines : {None} \cup { Some(b) : b \in BylineLists },
     post_date : {None, Some(""), Some("2024-01-01T00:00:00Z"), Some("not-a-date")},
     body_html : {None, Some("<p>hi</p>")}]

MetaResponses ==
    { Response(TRUE, 0, None), Response(FALSE, 404, None), Response(FALSE, 500, None),
      Response(FALSE, 200, None) }
        \cup { Response(FALSE, 200, Some(d)) : d \in MetaDocs }

CommentObjects == [name : {None, Some("B")}, body : {None, Some(""), Some("nice")}]
CommentLists == UNION { [1..n -> CommentObjects] : n \in 0..MaxComments }
CommentDocs == [comments : {None} \cup { Some(l) : l \in CommentLists }]

CommentResponses ==
    { Response(TRUE, 0, None), Response(FALSE, 404, None), Response(FALSE, 500, None),
      Response(FALSE, 200, None) }
        \cup { Response(FALSE, 200, Some(d)) : d \in CommentDocs }

DOC_HELLO ==
    [id |-> Some(7), title |-> Some("Hello"),
     publishedBylines |-> Some(<< [name |-> Some("Ann")] >>),
     post_date |-> Some("2024-01-01T00:00:00Z"), body_html |-> Some("<p>hi</p>")]
DOC_WORLD == [DOC_HELLO EXCEPT !.title = Some("World"), !.publishedBylines = Some(<< [name |-> Some("Bob")] >>)]
DOC_NO_BYLINE == [DOC_HELLO EXCEPT !.publishedBylines = Some(<<>>)]
COMMENTS_ONE ==
    Response(FALSE, 200, Some([comments |-> Some(<< [name |-> Some("B"), body |-> Some("nice")] >>)]))

\* the records and covers the renderer and the packager are called with
FormattedComments == { FormatComment(u, "nice") : u \in {"B", "Anonymous"} } \cup { FormatComment("B", "ok") }
RecordComments == UNION { [1..n -> FormattedComments] : n \in 0..MaxComments }

CoverRecords ==
    { Record(t, a, d, "<p>hi</p>", <<>>, URL_X, dom) :
        t \in {"Untitled", "Hello", "World"}, a \in {"Unknown Author", "Ann"},
        d \in {"Undated", "January 01, 2024"}, dom \in {<<"x">>, <<"y">>} }

EpubRecords ==
    { Record(t, "Ann", "January 01, 2024", b, cs, URL_X, <<"x">>) :
        t \in {"Untitled", "Hello"}, b \in {"", "<p>hi</p>"}, cs \in RecordComments }

EpubCovers == { generate_cover(s, Record("Hello", "Ann", "Undated", "", <<>>, URL_X, <<"x">>)) : s \in STYLES }

(***************************************************************************)
(* Specifications                                                          *)
(***************************************************************************)
FetchIdle == f_url = <<>> /\ f_resp = None /\ f_cresp = None /\ f_ret = None
CoverIdle == g_style = "" /\ g_data = None /\ g_ret = None
EpubIdle == e_data = None /\ e_cover = None /\ e_ret = None
UiIdle ==
    /\ url_input = <<>>
    /\ session_state = [data |-> None, selected_cover |-> None]
    /\ run = Page(FALSE, None, FALSE)
    /\ last_fetched = None

\* --- one call of get_substack_api_data ---------------------------------
FetchInit ==
    /\ \/ /\ f_url \in Urls
          /\ f_resp \in {Response(FALSE, 404, None), Response(FALSE, 200, Some(DOC_HELLO))}
          /\ f_cresp = COMMENTS_ONE
       \/ /\ f_url \in {URL_X, URL_Y}
          /\ f_resp \in MetaResponses
          /\ f_cresp \in CommentResponses
    /\ f_ret = None
    /\ CoverIdle /\ EpubIdle /\ UiIdle

Fetch ==
    /\ f_ret = None
    /\ f_ret' = Some(get_substack_api_data(f_url, f_resp, f_cresp))
    /\ UNCHANGED <<f_url, f_resp, f_cresp, coverVars, epubVars, uiVars>>

FetchNext == Fetch
FetchSpec == FetchInit /\ [][FetchNext]_vars

\* --- one call of generate_cover ----------------------------------------
CoverInit ==
    /\ g_style \in STYLES \cup {"Sepia", ""}
    /\ g_data \in { Some(r) : r \in CoverRecords }
    /\ g_ret = None
    /\ FetchIdle /\ EpubIdle /\ UiIdle

\* the call returns the image; no path of generate_cover raises
Render ==
    /\ g_ret = None
    /\ g_ret' = Some([returned |-> Some(generate_cover(g_style, g_data[1])), raised |-> None])
    /\ UNCHANGED <<g_style, g_data, fetchVars, epubVars, uiVars>>

CoverNext == Render
CoverSpec == CoverInit /\ [][CoverNext]_vars

\* --- one call of create_epub -------------------------------------------
EpubInit ==
    /\ e_data \in { Some(r) : r \in EpubRecords }
    /\ e_cover \in { Some(c) : c \in EpubCovers }
    /\ e_ret = None
    /\ FetchIdle /\ CoverIdle /\ UiIdle

Package ==
    /\ e_ret = None
    /\ e_ret' = Some(create_epub(e_data[1], e_cover[1]))
    /\ UNCHANGED <<e_data, e_cover, fetchVars, coverVars, uiVars>>

EpubNext == Package
EpubSpec == EpubInit /\ [][EpubNext]_vars

\* --- the Streamlit session ---------------------------------------------
UiUrls == {<<>>, URL_X, URL_Y, URL_NO_MARKER}
UiMetaResponses ==
    { Response(FALSE, 404, None), Response(FALSE, 200, Some(DOC_HELLO)),
      Response(FALSE, 200, Some(DOC_WORLD)), Response(FALSE, 200, Some(DOC_NO_BYLINE)) }
UiCommentResponses == { Response(FALSE, 500, None), COMMENTS_ONE }

Init == FetchIdle /\ CoverIdle /\ EpubIdle /\ UiIdle

\* the state after a script run r, and the record its fetch returned
Finish(url, r) ==
    /\ url_input' = url
    /\ session_state' = r.session
    /\ run' = r.page
    /\ last_fetched' = IF r.fetched # None /\ r.fetched[1].data # None
                       THEN r.fetched[1].data
                       ELSE last_fetched
    /\ UNCHANGED <<fetchVars, coverVars, epubVars>>

\* a script run started by `clicked`, the servers answering resp and c_resp
Rerun(url, clicked, resp, c_resp) ==
    Finish(url, ScriptRun(url, session_state, clicked, resp, c_resp))

\* the user edits the URL field
EditUrl ==
    \E u \in UiUrls :
        /\ u # url_input
        /\ Rerun(u, "", Response(TRUE, 0, None), Response(TRUE, 0, None))

\* the user clicks "Fetch Article"
ClickFetch ==
    /\ run.fetch_button
    /\ \E resp \in UiMetaResponses, c_resp \in UiCommentResponses :
           Rerun(url_input, "Fetch Article", resp, c_resp)

\* the user clicks one of the three selection buttons
ClickSelect ==
    /\ run.select_buttons
    /\ \E k \in 1..3 :
           Rerun(url_input, COVER_BUTTONS[k], Response(TRUE, 0, None), Response(TRUE, 0, None))

\* the user clicks the download button
ClickDownload ==
    /\ run.download_button
    /\ Rerun(url_input, "Download EPUB for Kindle", Response(TRUE, 0, None), Response(TRUE, 0, None))

Next == EditUrl \/ ClickFetch \/ ClickSelect \/ ClickDownload
Spec == Init /\ [][Next]_vars

(***************************************************************************)
(* Properties                                                              *)
(***************************************************************************)
\* the session holds a record: the 'data' key is present and its value is a
\* record, and some fetch has returned a record
HoldsRecord ==
    /\ session_state.data # None
    /\ session_state.data[1] # None
    /\ last_fetched # None

\* C1: generate_cover and create_epub are called only in runs where the
\* session holds a successfully fetched record, and the download button is on
\* the page only when the session holds such a record and one selected cover.
C1_GatedOnRecordAndCover ==
    /\ (run.render_calls # <<>> \/ run.package_calls # <<>>) => HoldsRecord
    /\ run.download_button =>
          /\ HoldsRecord
          /\ Len(session_state.selected_cover) = 1
          /\ run.epub_file # None

\* a failed fetch in a session that already offers a download
C1_Witness ==
    /\ run.error # None
    /\ run.download_button
    /\ Len(run.render_calls) = 3

\* C2: the record in the session is the one the most recent successful fetch
\* returned (none before the first), and every generate_cover and create_epub
\* call of a run is given that record.
C2_LatestRecord ==
    /\ session_state.data = (IF last_fetched = None THEN None ELSE Some(last_fetched))
    /\ \A i \in 1..Len(run.render_calls) : run.render_calls[i].data = last_fetched
    /\ \A i \in 1..Len(run.package_calls) : run.package_calls[i].data = last_fetched

\* a successful fetch that replaced an earlier record, rendered and packaged
C2_Witness ==
    /\ run.success
    /\ run.package_calls # <<>>
    /\ session_state.data[1][1].title = "World"
    /\ session_state.data[1][1].comments = <<>>

\* C10: whenever the download is offered, the selected cover is a cover of
\* the record in the session, in one of the three styles.
C10_CoverOfPackagedRecord ==
    run.download_button =>
        \E k \in 1..3 :
            session_state.selected_cover[1]
                = generate_cover(COVER_STYLES[k], session_state.data[1][1])

\* no "/p/" at any position of the URL
NoMarker(url) ==
    \A i \in 1..Len(url) :
        ~(i + 2 <= Len(url) /\ url[i] = "/" /\ url[i + 1] = "p" /\ url[i + 2] = "/")

\* the metadata request was sent and answered with this status
MetaAnswered == f_ret # None /\ Len(f_ret[1].requests) >= 1 /\ ~f_resp.raised
\* the comment request was sent and answered
CommentsAnswered == f_ret # None /\ Len(f_ret[1].requests) = 2 /\ ~f_cresp.raised

\* C3: a URL without "/p/" gets the input error, no record, and no request.
C3_NoMarkerInputError ==
    (f_ret # None /\ NoMarker(f_url)) =>
        /\ f_ret[1].data = None
        /\ f_ret[1].error = Some(ERR_INVALID_URL)
        /\ f_ret[1].requests = <<>>

\* a URL with a scheme separator and a path but no marker, the server ready
\* to answer 200
C3_Witness ==
    /\ f_ret # None
    /\ NoMarker(f_url)
    /\ Contains(f_url, SCHEME_SEP)
    /\ Contains(f_url, <<"p">>)
    /\ f_resp.status_code = 200

\* C4: metadata answered 200 and comments answered non-200: a record with no
\* comments, and no error.
C4_CommentFailureIsEmpty ==
    (MetaAnswered /\ f_resp.status_code = 200
        /\ CommentsAnswered /\ f_cresp.status_code # 200) =>
        /\ f_ret[1].error = None
        /\ f_ret[1].data # None
        /\ f_ret[1].data[1].comments = <<>>

C4_Witness ==
    /\ MetaAnswered /\ f_resp.status_code = 200
    /\ CommentsAnswered /\ f_cresp.status_code = 500
    /\ f_ret[1].data # None
    /\ f_ret[1].data[1].title = "Hello"

\* the comments of the response that have a non-empty body, in its order
HasBody(c) == c.body # None /\ c.body[1] # ""
ListedComments == Get(f_cresp.json[1].comments, <<>>)
KeptComments == SelectSeq(ListedComments, HasBody)
NameOf(c) == IF c.name = None THEN "Anonymous" ELSE c.name[1]

\* a fetch that returned a record and read the comment list
FetchedWithComments ==
    /\ MetaAnswered /\ CommentsAnswered
    /\ f_cresp.status_code = 200
    /\ f_cresp.json # None
    /\ f_ret[1].data # None

C8_MetadataFailureAborts ==
    (MetaAnswered /\ f_resp.status_code # 200) =>
        /\ f_ret[1].data = None
        /\ f_ret[1].error = Some(<<"API Error: ", ToString(f_resp.status_code)>>)
        /\ Len(f_ret[1].requests) = 1

C8_Witness ==
    /\ MetaAnswered
    /\ f_resp.status_code = 404
    /\ f_cresp.status_code = 200
    /\ f_ret[1].error = Some(<<"API Error: ", "404">>)

\* nothing but a missing field stands between the metadata and a record:
\* the document parses, a date that is present is well formed, and the
\* comment request, if sent, is answered with a readable body or a non-200
MetadataOnlyMissing ==
    /\ MetaAnswered /\ f_resp.status_code = 200 /\ f_resp.json # None
    /\ LET d == f_resp.json[1] IN
          /\ d.post_date \in {None, Some("")} \/ FormatDate(d.post_date[1]) # None
          /\ \/ d.id \in {None, Some(0)}
             \/ ~f_cresp.raised /\ (f_cresp.status_code # 200 \/ f_cresp.json # None)

\* the first byline's name is missing: no list, an empty list, or a first
\* entry without a name
NoFirstBylineName(d) ==
    \/ d.publishedBylines = None
    \/ d.publishedBylines[1] = <<>>
    \/ d.publishedBylines[1][1].name = None

\* C9: with a 200 metadata response, a record is returned and each missing
\* field has its default in it.
C9_DefaultsForMissing ==
    MetadataOnlyMissing =>
        LET d == f_resp.json[1] IN
        /\ f_ret[1].error = None
        /\ f_ret[1].data # None
        /\ d.title = None => f_ret[1].data[1].title = "Untitled"
        /\ NoFirstBylineName(d) => f_ret[1].data[1].author = "Unknown Author"
        /\ d.post_date = None => f_ret[1].data[1].date = "Undated"

\* C6: each of the three styles gives a 600x900 image unlike the other two
\* styles' images of the same record; any other style raises and gives no
\* image.
C6_StylesOrError ==
    g_ret # None =>
        IF g_style \in STYLES
        THEN /\ g_ret[1].raised = None
             /\ g_ret[1].returned # None
             /\ g_ret[1].returned[1].size = <<600, 900>>
             /\ \A other \in STYLES \ {g_style} :
                    g_ret[1].returned[1] # generate_cover(other, g_data[1])
        ELSE /\ g_ret[1].raised # None
             /\ g_ret[1].returned = None

\* the chapters of a book, and the comment section of a chapter's markup
IsChapter(item) == item.kind = "EpubHtml"
Chapters(book) == SelectSeq(book.items, IsChapter)
HasCommentsSection(html) == \E i \in 1..Len(html) : html[i] = COMMENTS_HEADER

\* the contents of the comment blocks of a chapter, in order
RECURSIVE BlocksFrom(_, _, _, _)
BlocksFrom(html, i, inside, current) ==
    IF i > Len(html) THEN <<>>
    ELSE IF ~inside
         THEN BlocksFrom(html, i + 1, html[i] = DIV_OPEN, <<>>)
         ELSE IF html[i] = DIV_CLOSE
              THEN <<current>> \o BlocksFrom(html, i + 1, FALSE, <<>>)
              ELSE BlocksFrom(html, i + 1, TRUE, Append(current, html[i]))

\* C7: one chapter, one embedded cover (the one given), and a comments
\* section exactly when the record has comments, one block per comment in
\* the record's order.
C7_OneChapterOneCover ==
    e_ret # None =>
        LET book == e_ret[1] IN
        /\ Len(Chapters(book)) = 1
        /\ Len(book.covers) = 1
        /\ book.covers[1].content = e_cover[1]
        /\ HasCommentsSection(Chapters(book)[1].content) <=> (e_data[1].comments # <<>>)
        /\ BlocksFrom(Chapters(book)[1].content, 1, FALSE, <<>>) = e_data[1].comments

\* a record with two different comments, packaged
C7_Witness ==
    /\ e_ret # None
    /\ Len(e_data[1].comments) = 2
    /\ e_data[1].comments[1] # e_data[1].comments[2]
    /\ HasCommentsSection(Chapters(e_ret[1])[1].content)

====
